---------------------------- MODULE Spec2Model ----------------------------
(***************************************************************************)
(* imohash: a sampling hash for files (src/imohash.go).                    *)
(*                                                                         *)
(* The engine ImoHash owns a murmur3 128-bit hasher, two configuration     *)
(* fields and a byte counter.  It is modelled as the record imo.  Every    *)
(* method of the engine is an operator from the engine (and its            *)
(* arguments) to the engine after the call and the values returned; the    *)
(* actions apply these operators to inputs drawn from small sets.          *)
(*                                                                         *)
(* Bytes are the integers 0..255, byte slices are sequences of bytes.      *)
(* A 64-bit unsigned word is a tuple of four 16-bit limbs, least           *)
(* significant first, so that no intermediate value leaves 32 bits.        *)
(***************************************************************************)
EXTENDS Integers, Sequences, FiniteSets, TLC

(***************************************************************************)
(* 64-bit unsigned arithmetic (Go's uint64 operators used by murmur3).     *)
(***************************************************************************)
Limb == 65536

Zero64 == <<0, 0, 0, 0>>

\* uint64(n) for a non-negative int n that fits 31 bits
U64(n) == <<n % Limb, n \div Limb, 0, 0>>

\* a 64-bit constant from its four 16-bit groups, most significant first
Hex64(a, b, c, d) == <<d, c, b, a>>

Pow2(n) == 2 ^ n

RECURSIVE XorBits(_, _)
\* a ^ b on non-negative integers
XorBits(a, b) ==
    IF a = 0 THEN b
    ELSE IF b = 0 THEN a
    ELSE ((a + b) % 2) + 2 * XorBits(a \div 2, b \div 2)

\* a ^ b for every pair of bytes
XorTable == [a \in 0..255 |-> [b \in 0..255 |-> XorBits(a, b)]]

\* a ^ b on 16-bit limbs, byte by byte
XorLimb(a, b) ==
    IF b = 0 THEN a
    ELSE XorTable[a % 256][b % 256] + 256 * XorTable[a \div 256][b \div 256]

\* x ^ y
Xor64(x, y) ==
    IF y = Zero64 THEN x
    ELSE IF x = Zero64 THEN y
    ELSE <<XorLimb(x[1], y[1]), XorLimb(x[2], y[2]),
           XorLimb(x[3], y[3]), XorLimb(x[4], y[4])>>

\* x + y (mod 2^64)
Add64(x, y) ==
    LET s1 == x[1] + y[1]
        s2 == x[2] + y[2] + (s1 \div Limb)
        s3 == x[3] + y[3] + (s2 \div Limb)
        s4 == x[4] + y[4] + (s3 \div Limb)
    IN  <<s1 % Limb, s2 % Limb, s3 % Limb, s4 % Limb>>

\* x * y (mod 2^64): the limbs of x times the bytes of y, column by column
\* (column p collects the products of weight 256^p), then the carries
Mul64(x, y) ==
    IF x = Zero64 \/ y = Zero64 THEN Zero64
    ELSE
    LET y0 == y[1] % 256
        y1 == y[1] \div 256
        y2 == y[2] % 256
        y3 == y[2] \div 256
        y4 == y[3] % 256
        y5 == y[3] \div 256
        y6 == y[4] % 256
        y7 == y[4] \div 256
        t0 == x[1] * y0
        t1 == x[1] * y1 + (t0 \div 256)
        t2 == x[1] * y2 + x[2] * y0 + (t1 \div 256)
        t3 == x[1] * y3 + x[2] * y1 + (t2 \div 256)
        t4 == x[1] * y4 + x[2] * y2 + x[3] * y0 + (t3 \div 256)
        t5 == x[1] * y5 + x[2] * y3 + x[3] * y1 + (t4 \div 256)
        t6 == x[1] * y6 + x[2] * y4 + x[3] * y2 + x[4] * y0 + (t5 \div 256)
        t7 == x[1] * y7 + x[2] * y5 + x[3] * y3 + x[4] * y1 + (t6 \div 256)
    IN  << (t0 % 256) + 256 * (t1 % 256),
           (t2 % 256) + 256 * (t3 % 256),
           (t4 % 256) + 256 * (t5 % 256),
           (t6 % 256) + 256 * (t7 % 256) >>

\* x * n (mod 2^64) for a small constant n (n < 2^15)
MulSmall64(x, n) ==
    LET s1 == x[1] * n
        s2 == x[2] * n + (s1 \div Limb)
        s3 == x[3] * n + (s2 \div Limb)
        s4 == x[4] * n + (s3 \div Limb)
    IN  <<s1 % Limb, s2 % Limb, s3 % Limb, s4 % Limb>>

\* limb i (0..3) of x, 0 outside the word
LimbAt(x, i) == IF i >= 0 /\ i <= 3 THEN x[i + 1] ELSE 0

\* limb i (0..3) of x >> r, for 0 <= r < 64
ShrLimb(x, r, i) ==
    LET q == r \div 16
        s == r % 16
    IN  (LimbAt(x, i + q) \div Pow2(s))
        + (LimbAt(x, i + 1 + q) % Pow2(s)) * Pow2(16 - s)

\* x >> r
Shr64(x, r) == <<ShrLimb(x, r, 0), ShrLimb(x, r, 1), ShrLimb(x, r, 2), ShrLimb(x, r, 3)>>

\* limb i (0..3) of x rotated left by 16 * q bits and then by s < 16 bits,
\* where lo = 2^s and hi = 2^(16 - s)
RotLimb(x, q, lo, hi, i) ==
    (x[((i - q + 4) % 4) + 1] % hi) * lo + (x[((i - q + 3) % 4) + 1] \div hi)

\* (x << r) | (x >> (64 - r)), for 0 < r < 64
Rotl64(x, r) ==
    IF x = Zero64 THEN Zero64
    ELSE LET q == r \div 16
             lo == Pow2(r % 16)
             hi == Pow2(16 - (r % 16))
         IN  <<RotLimb(x, q, lo, hi, 0), RotLimb(x, q, lo, hi, 1),
               RotLimb(x, q, lo, hi, 2), RotLimb(x, q, lo, hi, 3)>>

(***************************************************************************)
(* The mixing primitive: murmur3.New128() of github.com/spaolacci/murmur3, *)
(* the x64 128-bit MurmurHash3 with seed 0.  It is a hash.Hash: its state  *)
(* is a function of the bytes written since the last Reset, so the hasher  *)
(* is modelled as that byte stream and Sum as the digest of the stream.    *)
(***************************************************************************)
c1_128 == Hex64(34755, 31633, 4418, 21461)      \* 0x87c37b91114253d5

c2_128 == Hex64(19701, 44355, 10053, 37759)     \* 0x4cf5ad432745937f

\* limb j (1..4) of the little-endian word of the bytes p[off+1 .. off+n]
LeLimb(p, off, n, j) ==
    (IF 2 * j - 1 <= n THEN p[off + 2 * j - 1] ELSE 0)
    + 256 * (IF 2 * j <= n THEN p[off + 2 * j] ELSE 0)

\* the little-endian word of the (at most 8) bytes p[off+1 .. off+n]
Le64(p, off, n) ==
    <<LeLimb(p, off, n, 1), LeLimb(p, off, n, 2), LeLimb(p, off, n, 3), LeLimb(p, off, n, 4)>>

\* k1 *= c1; k1 = rotl(k1, 31); k1 *= c2
MixK1(k1) == Mul64(Rotl64(Mul64(k1, c1_128), 31), c2_128)

\* k2 *= c2; k2 = rotl(k2, 33); k2 *= c1
MixK2(k2) == Mul64(Rotl64(Mul64(k2, c2_128), 33), c1_128)

\* h1 ^= k1; h1 = rotl(h1, 27); h1 += h2; h1 = h1*5 + 0x52dce729
bmixH1(h1, h2, k1) ==
    Add64(MulSmall64(Add64(Rotl64(Xor64(h1, MixK1(k1)), 27), h2), 5), U64(1390208809))

\* h2 ^= k2; h2 = rotl(h2, 31); h2 += h1; h2 = h2*5 + 0x38495ab5
bmixH2(h2, h1, k2) ==
    Add64(MulSmall64(Add64(Rotl64(Xor64(h2, MixK2(k2)), 31), h1), 5), U64(944331445))

\* <<h1, h2>> once h2 has been mixed with k2 and the new h1
bmixPair(h1, h2, k2) == <<h1, bmixH2(h2, h1, k2)>>

\* one 16-byte block, block number i (from 0) of p, mixed into h = <<h1, h2>>
bmixBlock(h, p, i) ==
    bmixPair(bmixH1(h[1], h[2], Le64(p, 16 * i, 8)), h[2], Le64(p, 16 * i + 8, 8))

RECURSIVE bmix(_, _, _, _)
\* the blocks lo .. hi-1 of p mixed into h = <<h1, h2>> in order: the first
\* half of the blocks, then (from the state they leave) the second half
bmix(h, p, lo, hi) ==
    IF lo >= hi THEN h
    ELSE IF hi = lo + 1 THEN bmixBlock(h, p, lo)
    ELSE LET mid == (lo + hi) \div 2
             left == bmix(h, p, lo, mid)
         IN  IF Len(left) = 2 THEN bmix(left, p, mid, hi) ELSE left

\* k ^= k >> 33
xorShift33(k) == Xor64(k, Shr64(k, 33))

\* k ^= k >> 33; k *= 0xff51afd7ed558ccd; k ^= k >> 33;
\* k *= 0xc4ceb9fe1a85ec53; k ^= k >> 33
fmix64(k) ==
    xorShift33(Mul64(xorShift33(Mul64(xorShift33(k), Hex64(65361, 45015, 60757, 36045))),
                     Hex64(50382, 47614, 6789, 60499)))

\* the tl < 16 bytes of p from offset off (those after the last whole block)
\* mixed into h = <<h1, h2>>
tailMix(h, p, off, tl) ==
    << IF tl > 0
       THEN Xor64(h[1], MixK1(Le64(p, off, IF tl > 8 THEN 8 ELSE tl)))
       ELSE h[1],
       IF tl > 8 THEN Xor64(h[2], MixK2(Le64(p, off + 8, tl - 8))) ELSE h[2] >>

\* h1 ^= clen; h2 ^= clen
xorLen(h, clen) == <<Xor64(h[1], U64(clen)), Xor64(h[2], U64(clen))>>

\* <<h1, h2 + h1>>
addSecond(h1, h2) == <<h1, Add64(h2, h1)>>

\* h1 += h2; h2 += h1
addPair(h) == addSecond(Add64(h[1], h[2]), h[2])

\* h1 = fmix64(h1); h2 = fmix64(h2)
fmixPair(h) == <<fmix64(h[1]), fmix64(h[2])>>

\* the two 64-bit halves of the digest of the stream p
murmur3Sum128(p) ==
    addPair(fmixPair(addPair(xorLen(
        tailMix(bmix(<<Zero64, Zero64>>, p, 0, Len(p) \div 16),
                p, 16 * (Len(p) \div 16), Len(p) % 16),
        Len(p)))))

\* the 16 bytes of <<h1, h2>>, each half most significant byte first
digestBytes(h) ==
    << h[1][4] \div 256, h[1][4] % 256, h[1][3] \div 256, h[1][3] % 256,
       h[1][2] \div 256, h[1][2] % 256, h[1][1] \div 256, h[1][1] % 256,
       h[2][4] \div 256, h[2][4] % 256, h[2][3] \div 256, h[2][3] % 256,
       h[2][2] \div 256, h[2][2] % 256, h[2][1] \div 256, h[2][1] % 256 >>

\* hasher.Sum(nil)
murmur3Sum(p) == digestBytes(murmur3Sum128(p))

(***************************************************************************)
(* encoding/binary.PutUvarint, as used at imohash.go:91 and :137.          *)
(***************************************************************************)
RECURSIVE PutUvarintAt(_, _, _)
\* the loop of PutUvarint with i bytes already written:
\*   for x >= 0x80 { buf[i] = byte(x) | 0x80; x >>= 7; i++ }; buf[i] = byte(x)
PutUvarintAt(buf, x, i) ==
    IF x >= 128
    THEN PutUvarintAt([buf EXCEPT ![i + 1] = (x % 128) + 128], x \div 128, i + 1)
    ELSE [buf EXCEPT ![i + 1] = x]

\* a faulty PutUvarint: one byte, byte(x), whatever x is
PutUvarintOneByte(buf, x) == [buf EXCEPT ![1] = x % 256]

\* buf after binary.PutUvarint(buf, x); the count it returns is dropped by
\* both callers
PutUvarint(buf, x) == PutUvarintAt(buf, x, 0)

(***************************************************************************)
(* The byte source: an io.SectionReader over an io.ReaderAt.               *)
(*                                                                         *)
(* A ReaderAt is [data, failAt, calls]: its bytes, the number of the       *)
(* ReadAt call that fails with an I/O error (0: none ever fails; always 0  *)
(* for a bytes.Reader) and the ReadAt calls made so far.  A failing ReadAt *)
(* delivers no byte.                                                       *)
(***************************************************************************)
Min(a, b) == IF a < b THEN a ELSE b

\* bytes.NewReader(data)
bytesNewReader(data) == [data |-> data, failAt |-> 0, calls |-> 0]

\* r.ReadAt(p, off) for len(p) = n: the reader after the call, the bytes
\* delivered and the error
ReadAt(r, n, off) ==
    LET r2 == [r EXCEPT !.calls = @ + 1]
        got == SubSeq(r.data, off + 1, Min(off + n, Len(r.data)))
    IN  IF r.failAt = r.calls + 1
        THEN [r |-> r2, bytes |-> <<>>, err |-> "EIO"]
        ELSE [r |-> r2, bytes |-> got, err |-> IF Len(got) < n THEN "EOF" ELSE "nil"]

\* io.NewSectionReader(r, 0, n)
NewSectionReader(r, n) == [r |-> r, off |-> 0, limit |-> n]

\* f.Size()
SectionReaderSize(f) == f.limit

\* f.Read(p): the reader and the buffer after the call, the count and the error
SectionReaderRead(f, p) ==
    IF f.off >= f.limit
    THEN [f |-> f, p |-> p, n |-> 0, err |-> "EOF"]
    ELSE LET max == f.limit - f.off
             want == IF Len(p) > max THEN max ELSE Len(p)
             ra == ReadAt(f.r, want, f.off)
             n == Len(ra.bytes)
         IN  [f |-> [f EXCEPT !.r = ra.r, !.off = @ + n],
              p |-> [i \in 1..Len(p) |-> IF i <= n THEN ra.bytes[i] ELSE p[i]],
              n |-> n,
              err |-> ra.err]

\* f.Seek(offset, whence) for whence 0 (io.SeekStart) and 2 (io.SeekEnd): a
\* seek before the start fails and leaves the position where it was
SectionReaderSeek(f, offset, whence) ==
    LET target == IF whence = 2 THEN offset + f.limit ELSE offset
    IN  IF target < 0
        THEN [f |-> f, err |-> "errOffset"]
        ELSE [f |-> [f EXCEPT !.off = target], err |-> "nil"]

\* make([]byte, n)
MakeBytes(n) == [i \in 1..n |-> 0]

(***************************************************************************)
(* The engine.                                                             *)
(***************************************************************************)
Size == 16

SampleThreshhold == 131072

SampleSize == 16384

emptyArray == [i \in 1..Size |-> 0]

NewCustom(sampleSize, sampleThreshold) ==
    [hasher |-> <<>>,
     sampleSize |-> sampleSize,
     sampleThreshold |-> sampleThreshold,
     bytesAdded |-> 0]

New == NewCustom(SampleSize, SampleThreshhold)

\* a faulty hasher reset: the hasher keeps what it holds
ResetHasherKeep(imo) == imo

\* a faulty hasher reset: the whole engine is reset, as by imo.Reset()
ResetHasherAndCount(imo) == [imo EXCEPT !.hasher = <<>>, !.bytesAdded = 0]

\* imo.hasher.Reset()
ResetHasher(imo) == [imo EXCEPT !.hasher = <<>>]

\* imo.hasher.Write(p)
WriteHasher(imo, p) == [imo EXCEPT !.hasher = @ \o p]

\* a faulty Sum: the hasher is left reset once the digest is taken
SumConsuming(imo, data) ==
    [imo |-> [imo EXCEPT !.hasher = <<>>],
     out |-> data \o PutUvarint(murmur3Sum(imo.hasher), imo.bytesAdded)]

\* imo.Sum(data): the engine after the call and the slice returned
Sum(imo, data) ==
    LET hash == PutUvarint(murmur3Sum(imo.hasher), imo.bytesAdded)
    IN  [imo |-> imo, out |-> data \o hash]

\* a faulty Write: the bytes are mixed and not counted
WriteNoCount(imo, data) ==
    [imo |-> [imo EXCEPT !.hasher = @ \o data], n |-> Len(data), err |-> "nil"]

\* a faulty Write: the calls are counted, not the bytes
WriteCountCalls(imo, data) ==
    [imo |-> [imo EXCEPT !.hasher = @ \o data, !.bytesAdded = @ + 1],
     n |-> Len(data),
     err |-> "nil"]

\* imo.Write(data): the engine after the call and (n, err)
Write(imo, data) ==
    [imo |-> [WriteHasher(imo, data) EXCEPT !.bytesAdded = @ + Len(data)],
     n |-> Len(data),
     err |-> "nil"]

\* imo.Reset()
Reset(imo) == ResetHasher([imo EXCEPT !.bytesAdded = 0])

\* a faulty test: a source of exactly sampleThreshold bytes is hashed whole
WholeContentInclusive(imo, f) ==
    f.limit <= imo.sampleThreshold \/ imo.sampleSize < 1

\* the test of hashCore for hashing the whole content
WholeContent(imo, f) ==
    SectionReaderSize(f) < imo.sampleThreshold \/ imo.sampleSize < 1

\* a faulty sampling branch: the middle window is centred, it starts at
\* (Size - sampleSize) / 2
SampleReadsCentred(imo, f) ==
    LET r1 == SectionReaderRead(f, MakeBytes(imo.sampleSize))
        s2 == SectionReaderSeek(r1.f, (SectionReaderSize(f) - imo.sampleSize) \div 2, 0)
        r2 == SectionReaderRead(s2.f, r1.p)
        s3 == SectionReaderSeek(r2.f, 0 - imo.sampleSize, 2)
        r3 == SectionReaderRead(s3.f, r2.p)
    IN  [writes |-> <<r1.p, r2.p, r3.p>>,
         errs |-> <<r1.err, s2.err, r2.err, s3.err, r3.err>>]

\* a faulty sampling branch: no seek to the middle, the second read goes on
\* where the first ended
SampleReadsNoSeek(imo, f) ==
    LET r1 == SectionReaderRead(f, MakeBytes(imo.sampleSize))
        r2 == SectionReaderRead(r1.f, r1.p)
        s3 == SectionReaderSeek(r2.f, 0 - imo.sampleSize, 2)
        r3 == SectionReaderRead(s3.f, r2.p)
    IN  [writes |-> <<r1.p, r2.p, r3.p>>,
         errs |-> <<r1.err, "nil", r2.err, s3.err, r3.err>>]

\* the sampling branch of hashCore: the buffers handed to hasher.Write, in
\* order, and the errors of the three reads and two seeks, all of them dropped
\* by the code
SampleReads(imo, f) ==
    LET r1 == SectionReaderRead(f, MakeBytes(imo.sampleSize))
        s2 == SectionReaderSeek(r1.f, SectionReaderSize(f) \div 2, 0)
        r2 == SectionReaderRead(s2.f, r1.p)
        s3 == SectionReaderSeek(r2.f, 0 - imo.sampleSize, 2)
        r3 == SectionReaderRead(s3.f, r2.p)
    IN  [writes |-> <<r1.p, r2.p, r3.p>>,
         errs |-> <<r1.err, s2.err, r2.err, s3.err, r3.err>>]

\* the whole-content branch of hashCore
WholeRead(imo, f) ==
    LET r1 == SectionReaderRead(f, MakeBytes(SectionReaderSize(f)))
    IN  [writes |-> <<r1.p>>, errs |-> <<r1.err>>]

RECURSIVE WriteAll(_, _)
\* imo.hasher.Write(b) for each buffer b of ws, in order
WriteAll(imo, ws) ==
    IF ws = <<>> THEN imo ELSE WriteAll(WriteHasher(imo, Head(ws)), Tail(ws))

\* the end of hashCore, from the hasher.Sum(nil) on: after is the engine once
\* the buffers are written, io what the branch taken read
hashCoreSum(after, f, io) ==
    LET hash == PutUvarint(murmur3Sum(after.hasher), SectionReaderSize(f))
    IN  [imo |-> after,
         result |-> [i \in 1..Size |-> hash[i]],
         writes |-> io.writes,
         errs |-> io.errs]

\* hashCore from the hasher.Reset() on, for what the branch taken read
hashCoreMix(imo, f, io) == hashCoreSum(WriteAll(ResetHasher(imo), io.writes), f, io)

\* imo.hashCore(f): the engine after the call, the [Size]byte returned, and
\* what the call handed to the hasher and got from the reader (writes, errs)
hashCore(imo, f) ==
    hashCoreMix(imo, f, IF WholeContent(imo, f) THEN WholeRead(imo, f) ELSE SampleReads(imo, f))

\* a file of the file system: [status, data, failAt], where status tells
\* whether os.Open and f.Stat succeed and failAt is the failing ReadAt call
osFile(file) == [data |-> file.data, failAt |-> file.failAt, calls |-> 0]

\* return imo.hashCore(sr), nil
returnNil(hc) ==
    [imo |-> hc.imo, result |-> hc.result, err |-> "nil", writes |-> hc.writes, errs |-> hc.errs]

\* imo.SumFile(filename), for the file that filename names
ImoHashSumFile(imo, file) ==
    IF file.status = "noent"
    THEN [imo |-> imo, result |-> emptyArray, err |-> "open", writes |-> <<>>, errs |-> <<>>]
    ELSE IF file.status = "nostat"
    THEN [imo |-> imo, result |-> emptyArray, err |-> "stat", writes |-> <<>>, errs |-> <<>>]
    ELSE returnNil(hashCore(imo, NewSectionReader(osFile(file), Len(file.data))))

\* SumFile(filename)
SumFile(file) == ImoHashSumFile(New, file)

\* Sum128(data)
Sum128(data) == hashCore(New, NewSectionReader(bytesNewReader(data), Len(data))).result

(***************************************************************************)
(* Bounds and input sets.                                                  *)
(***************************************************************************)
\* longest file content
MaxLen == 2

\* most bytes written to the engine between two resets, when one-shot calls
\* are mixed in
MaxWritten == 1

\* most bytes written between two resets in a purely incremental session
MaxIncr == 3

\* longest slice passed to one Write
MaxChunk == 2

\* the byte other than 0 that contents are made of
MarkByte == 173

ByteSet == {0, MarkByte}

SeqsUpTo(n) == UNION {[1..k -> ByteSet] : k \in 0..n}

\* the custom configurations <<sampleSize, sampleThreshold>>
ConfigSet == {<<0, 1>>, <<1, 2>>, <<2, 1>>, <<1, 0>>}

Engines == {New} \cup {NewCustom(c[1], c[2]) : c \in ConfigSet}

\* the length of the long files: the first whose size takes two bytes to encode
LongLen == 128

\* the long contents: all zero, and all zero but one byte in the middle
LongData == {[i \in 1..LongLen |-> IF i = k THEN MarkByte ELSE 0] : k \in {0, (LongLen \div 2) + 1}}

\* the files: every content up to MaxLen and the long contents on a sound
\* device, the content of MaxLen marked bytes also on a device whose first,
\* second or third ReadAt fails, a file that cannot be opened and one that
\* cannot be stat'ed
FileSet ==
    {[status |-> "ok", data |-> d, failAt |-> 0] : d \in SeqsUpTo(MaxLen) \cup LongData}
    \cup {[status |-> "ok", data |-> [i \in 1..MaxLen |-> MarkByte], failAt |-> k] : k \in 1..3}
    \cup {[status |-> st, data |-> <<>>, failAt |-> 0] : st \in {"noent", "nostat"}}

Prefixes == {<<>>, <<7, 7>>}

\* a large buffer is described by its length and the offsets of its bytes
\* that are MarkByte; every other byte is 0
Expand(d) == [i \in 1..d.len |-> IF (i - 1) \in d.marks THEN MarkByte ELSE 0]

\* the lengths of the large buffers run from SampleThreshhold to
\* SampleThreshhold + MaxExtra
MaxExtra == 2

\* offsets of a buffer of length n outside and inside the three sample windows
Outside(n) ==
    {SampleSize, (n \div 2) - 1, (n \div 2) + SampleSize, n - SampleSize - 1}

Inside(n) == {0, n \div 2, n - 1}

\* pairs of large buffers of one length: the first has one marked byte, in the
\* middle window; the second differs from it in one byte inside or outside the
\* windows, in all the outside bytes, or in none
BufferPairs ==
    {<<[len |-> n, marks |-> {n \div 2}], [len |-> n, marks |-> m]>> :
        <<n, m>> \in UNION {
            {<<k, ({k \div 2} \cup d) \ ({k \div 2} \cap d)>> :
                d \in {{}, Outside(k)} \cup {{q} : q \in Outside(k) \cup Inside(k)}} :
            k \in SampleThreshhold..(SampleThreshhold + MaxExtra)}}

(***************************************************************************)
(* State: one engine, the bytes passed to Write since its last Reset (a    *)
(* history variable), and the last call with what it returned.  For the    *)
(* package-level Sum128: two buffers and the identifiers returned for them *)
(* (<<>> before the call).                                                 *)
(***************************************************************************)
VARIABLES imo, written, ret, bufs, ids

vars == <<imo, written, ret, bufs, ids>>

Init ==
    /\ imo \in Engines
    /\ written = <<>>
    /\ ret = [op |-> "New"]
    /\ bufs = <<>>
    /\ ids = <<>>

WriteAct(cap) ==
    \E data \in SeqsUpTo(MaxChunk) :
        /\ Len(written) + Len(data) <= cap
        /\ \E r \in {Write(imo, data)} :
               /\ imo' = r.imo
               /\ ret' = [op |-> "Write", len |-> Len(data), n |-> r.n, err |-> r.err]
        /\ written' = written \o data
        /\ UNCHANGED <<bufs, ids>>

SumAct ==
    \E prefix \in Prefixes :
        \E r \in {Sum(imo, prefix)} :
            /\ imo' = r.imo
            /\ ret' = [op |-> "Sum", prefix |-> prefix, out |-> r.out]
            /\ UNCHANGED <<written, bufs, ids>>

ResetAct ==
    /\ imo' = Reset(imo)
    /\ written' = <<>>
    /\ ret' = [op |-> "Reset"]
    /\ UNCHANGED <<bufs, ids>>

SumFileAct ==
    \E file \in FileSet :
        \E r \in {ImoHashSumFile(imo, file)} :
            /\ imo' = r.imo
            /\ ret' = [op |-> "SumFile", file |-> file, result |-> r.result,
                       err |-> r.err, writes |-> r.writes, errs |-> r.errs]
            /\ UNCHANGED <<written, bufs, ids>>

Next == WriteAct(MaxWritten) \/ SumAct \/ ResetAct \/ SumFileAct

Spec == Init /\ [][Next]_vars

\* a purely incremental session: Write, Sum and Reset only
NextIncr == WriteAct(MaxIncr) \/ SumAct \/ ResetAct

SpecIncr == Init /\ [][NextIncr]_vars

\* the package-level Sum128 on two large buffers
InitPkg ==
    /\ imo = New
    /\ written = <<>>
    /\ ret = [op |-> "New"]
    /\ bufs \in BufferPairs
    /\ ids = <<<<>>, <<>>>>

Sum128Act ==
    \E i \in {1, 2} :
        /\ ids[i] = <<>>
        /\ \E id \in {Sum128(Expand(bufs[i]))} : ids' = [ids EXCEPT ![i] = id]
        /\ UNCHANGED <<imo, written, ret, bufs>>

SpecPkg == InitPkg /\ [][Sum128Act]_vars

(***************************************************************************)
(* The properties.                                                         *)
(*                                                                         *)
(* The variable-length encoding is restated in closed form: the encoding   *)
(* of n has UvarintLen(n) bytes, byte i carries bits 7(i-1) .. 7i-1 of n   *)
(* and has its top bit set exactly when another byte follows.              *)
(***************************************************************************)
RECURSIVE UvarintLen(_)
UvarintLen(n) == IF n < 128 THEN 1 ELSE 1 + UvarintLen(n \div 128)

RECURSIVE UvarintByte(_, _)
UvarintByte(n, i) ==
    IF i = 1 THEN (n % 128) + (IF n >= 128 THEN 128 ELSE 0)
    ELSE UvarintByte(n \div 128, i - 1)

RECURSIVE DecodeUvarint(_, _)
\* the number that the first k bytes of b encode
DecodeUvarint(b, k) ==
    IF k = 0 THEN 0 ELSE (b[1] % 128) + 128 * DecodeUvarint(Tail(b), k - 1)

\* a 16-byte digest with the encoding of n laid over its leading bytes
Embedded(digest, n) ==
    [i \in 1..16 |-> IF i <= UvarintLen(n) THEN UvarintByte(n, i) ELSE digest[i]]

RECURSIVE Concat(_)
\* the slices of ws back to back
Concat(ws) == IF ws = <<>> THEN <<>> ELSE Head(ws) \o Concat(Tail(ws))

\* the last call was a one-shot hash that reached hashCore
OneShotDone == ret.op = "SumFile" /\ ret.err = "nil"

\* the engine of the configuration of imo, as its constructor returns it
Fresh == NewCustom(imo.sampleSize, imo.sampleThreshold)

\* C1: a one-shot hash of a source of size S returns exactly 16 bytes, the
\* first k of them (1 <= k <= 9) the variable-length encoding of S, the
\* others the bytes of the mixer's raw digest at the same positions.
C1_IdentifierLayout ==
    OneShotDone =>
        LET S == Len(ret.file.data)
            k == UvarintLen(S)
            raw == murmur3Sum(imo.hasher)
        IN  /\ Len(ret.result) = 16
            /\ k >= 1 /\ k <= 9
            /\ \A i \in 1..k : ret.result[i] = UvarintByte(S, i)
            /\ \A i \in 1..(k - 1) : ret.result[i] >= 128
            /\ ret.result[k] < 128
            /\ DecodeUvarint(ret.result, k) = S
            /\ \A i \in (k + 1)..16 : ret.result[i] = raw[i]

\* a sampled one-shot hash of a long file: its size takes two bytes
C1_Witness ==
    /\ OneShotDone
    /\ Len(ret.file.data) = LongLen
    /\ Len(ret.writes) = 3
    /\ UvarintLen(Len(ret.file.data)) = 2

\* what C2 says of every one-shot hash but of the 0-byte source
C2_Paths ==
    LET S == Len(ret.file.data)
        whole == Len(ret.writes) = 1 /\ Len(ret.writes[1]) = S
        sampled == Len(ret.writes) = 3
    IN  /\ whole <=> (S < imo.sampleThreshold \/ imo.sampleSize < 1)
        /\ ~whole => sampled
        /\ (S = imo.sampleThreshold /\ imo.sampleSize >= 1) => sampled
        /\ (whole /\ ret.file.failAt = 0) => ret.writes[1] = ret.file.data
        /\ (imo.sampleSize < 1 /\ ret.file.failAt = 0)
              => ret.result = Embedded(murmur3Sum(ret.file.data), S)

\* C2 as stated: the whole content is written at once exactly when
\* S < sampleThreshold or sampleSize < 1 and three samples otherwise, a source
\* of exactly sampleThreshold bytes is sampled, with sampleSize < 1 the result
\* is the whole-content identifier, and a 0-byte source is mixed as one
\* zero-length write.
C2_AsStated ==
    OneShotDone =>
        /\ C2_Paths
        /\ Len(ret.file.data) = 0 => ret.writes = << <<>> >>

\* C2 amended: the same, but a 0-byte source is mixed as one zero-length
\* write only when sampleThreshold > 0 or sampleSize < 1; with
\* sampleThreshold <= 0 and sampleSize >= 1 it is sampled.
C2_PathSelection ==
    OneShotDone =>
        /\ C2_Paths
        /\ (Len(ret.file.data) = 0 /\ (imo.sampleThreshold > 0 \/ imo.sampleSize < 1))
              => ret.writes = << <<>> >>
        /\ (Len(ret.file.data) = 0 /\ imo.sampleThreshold <= 0 /\ imo.sampleSize >= 1)
              => Len(ret.writes) = 3

\* a source of exactly sampleThreshold bytes was sampled
C2_Witness ==
    /\ OneShotDone
    /\ Len(ret.file.data) = imo.sampleThreshold
    /\ Len(ret.file.data) > 0
    /\ imo.sampleSize >= 1
    /\ Len(ret.writes) = 3

\* the bytes of data that lie in [off, off + n)
SourceBytes(data, off, n) ==
    SubSeq(data, (IF off < 0 THEN 0 ELSE off) + 1, Min(off + n, Len(data)))

\* the last call sampled a file on a sound device
SampledSound == OneShotDone /\ Len(ret.writes) = 3 /\ ret.file.failAt = 0

\* C3 as stated: whenever the sampling path is taken, S < 3*sampleSize
\* included, the mixer is fed three writes of sampleSize bytes, the source
\* bytes at [0, sampleSize), [S/2, S/2 + sampleSize) and [S - sampleSize, S),
\* and the stream mixed is the three ranges back to back.  (Stated of the
\* sources that are not empty, which is enough to refute it.)
C3_AsStated ==
    (SampledSound /\ ret.file.data # <<>>) =>
        LET S == Len(ret.file.data)
            n == imo.sampleSize
        IN  /\ \A j \in 1..3 : Len(ret.writes[j]) = n
            /\ ret.writes = << SourceBytes(ret.file.data, 0, n),
                               SourceBytes(ret.file.data, S \div 2, n),
                               SourceBytes(ret.file.data, S - n, n) >>
            /\ imo.hasher = Concat(ret.writes)

\* what a read of src leaves in a buffer that held prev: src, then the bytes
\* of prev that the read did not reach
Refill(src, prev) == src \o SubSeq(prev, Len(src) + 1, Len(prev))

\* C3 amended: the sampling path always feeds three writes of sampleSize
\* bytes and the stream mixed is the three back to back.  Each write is what
\* its read leaves in the one buffer the three reads share: the source bytes
\* of its window that exist, then the bytes the buffer held before; and when
\* S < sampleSize the third write repeats the second.  So the writes are the
\* source bytes at [0, sampleSize), [S/2, S/2 + sampleSize) and
\* [S - sampleSize, S) when the windows lie inside the source,
\* S/2 + sampleSize <= S (overlapping windows, S < 3*sampleSize, included).
C3_SampleWindows ==
    (OneShotDone /\ Len(ret.writes) = 3) =>
        LET S == Len(ret.file.data)
            n == imo.sampleSize
            w1 == Refill(SourceBytes(ret.file.data, 0, n), MakeBytes(n))
            w2 == Refill(SourceBytes(ret.file.data, S \div 2, n), w1)
            w3 == IF S >= n THEN SourceBytes(ret.file.data, S - n, n) ELSE w2
        IN  /\ \A j \in 1..3 : Len(ret.writes[j]) = n
            /\ imo.hasher = ret.writes[1] \o ret.writes[2] \o ret.writes[3]
            /\ ret.file.failAt = 0 => ret.writes = <<w1, w2, w3>>
            /\ (ret.file.failAt = 0 /\ (S \div 2) + n <= S)
                  => ret.writes = << SubSeq(ret.file.data, 1, n),
                                     SubSeq(ret.file.data, (S \div 2) + 1, (S \div 2) + n),
                                     SubSeq(ret.file.data, S - n + 1, S) >>

\* overlapping windows inside the source, with bytes that tell them apart
C3_Witness ==
    /\ SampledSound
    /\ Len(ret.file.data) < 3 * imo.sampleSize
    /\ (Len(ret.file.data) \div 2) + imo.sampleSize <= Len(ret.file.data)
    /\ ret.writes[1] # ret.writes[2]

\* a read or a seek of the last one-shot call failed (end of file is no failure)
ReadFailed == \E i \in 1..Len(ret.errs) : ret.errs[i] \notin {"nil", "EOF"}

\* C4: when a read or a seek of the source fails during a one-shot hash, the
\* call returns that error and no identifier.
C4_ErrorsSurface ==
    (ret.op = "SumFile" /\ ReadFailed) => ret.err # "nil"

\* C5: the identifier a one-shot call returns depends only on the source and
\* the configuration: it is the one a freshly created engine of that
\* configuration returns, whatever was written, reset or hashed before.
C5_OneShotDeterministic ==
    ret.op = "SumFile" =>
        /\ ret.result = ImoHashSumFile(Fresh, ret.file).result
        /\ Fresh = New => ret.result = SumFile(ret.file).result

\* a one-shot hash on an engine that bytes had been written to
C5_Witness ==
    /\ OneShotDone
    /\ written # <<>>
    /\ ret.file.data # <<>>
    /\ imo.hasher # written

\* C6: in an incremental session bytesAdded is the number of bytes written
\* since the last Reset, Write returns (len(data), nil), Sum(nil) is the raw
\* digest of those bytes with the encoding of bytesAdded laid over it, and
\* after Reset (and empty writes) Sum(nil) is that of a fresh engine.
C6_Incremental ==
    /\ imo.bytesAdded = Len(written)
    /\ ret.op = "Write" => (ret.n = ret.len /\ ret.err = "nil")
    /\ Sum(imo, <<>>).out = Embedded(murmur3Sum(written), Len(written))
    /\ written = <<>> => Sum(imo, <<>>).out = Sum(Fresh, <<>>).out

\* several bytes written, the last call a Write
C6_Witness ==
    /\ ret.op = "Write"
    /\ ret.n = 2
    /\ Len(written) = MaxIncr
    /\ written[1] # written[2]

\* C7: Sum(prefix) leaves the engine as it was and returns prefix followed by
\* 16 bytes; consecutive Sum calls return the same 16 bytes, whatever the
\* prefixes.
C7_SumIsPure ==
    [][ret'.op = "Sum" =>
          /\ imo' = imo
          /\ Len(ret'.out) = Len(ret'.prefix) + 16
          /\ SubSeq(ret'.out, 1, Len(ret'.prefix)) = ret'.prefix
          /\ ret.op = "Sum" =>
                SubSeq(ret'.out, Len(ret'.prefix) + 1, Len(ret'.out))
                    = SubSeq(ret.out, Len(ret.prefix) + 1, Len(ret.out))]_vars

\* Sum with a prefix on an engine that holds bytes
C7_Witness ==
    /\ ret.op = "Sum"
    /\ ret.prefix # <<>>
    /\ imo.hasher # <<>>
    /\ imo.bytesAdded > 0

\* the offset p lies in one of the three default sample windows of a buffer
\* of length n
InWindow(p, n) ==
    \/ p >= 0 /\ p < 16384
    \/ p >= n \div 2 /\ p < (n \div 2) + 16384
    \/ p >= n - 16384 /\ p < n

\* both buffers have been hashed
BothHashed == Len(ids) = 2 /\ ids[1] # <<>> /\ ids[2] # <<>>

\* the offsets where the two buffers differ
Differing == (bufs[1].marks \ bufs[2].marks) \cup (bufs[2].marks \ bufs[1].marks)

\* C8: two buffers of one length L >= 131072 that agree on every byte of
\* [0, 16384), [L/2, L/2 + 16384) and [L - 16384, L) get the same identifier
\* from Sum128.
C8_BlindSpot ==
    (/\ BothHashed
     /\ bufs[1].len = bufs[2].len
     /\ bufs[1].len >= 131072
     /\ \A p \in Differing : ~InWindow(p, bufs[1].len))
        => ids[1] = ids[2]

\* two hashed buffers that differ in four bytes, all outside the windows
C8_Witness ==
    /\ BothHashed
    /\ Cardinality(Differing) = 4
    /\ \A p \in Differing : ~InWindow(p, bufs[1].len)
    /\ ids[1] = ids[2]

\* C9: a one-shot call replaces the mixer state by what it mixed and leaves
\* bytesAdded, sampleSize and sampleThreshold alone, so that Sum(nil) is then
\* the digest of the one-shot's bytes with the encoding of the number of bytes
\* written before laid over it.
C9_StaleCount ==
    /\ [](OneShotDone =>
            /\ imo.hasher = Concat(ret.writes)
            /\ imo.bytesAdded = Len(written)
            /\ Sum(imo, <<>>).out
                  = Embedded(murmur3Sum(Concat(ret.writes)), Len(written)))
    /\ [][ret'.op = "SumFile" =>
            /\ imo'.bytesAdded = imo.bytesAdded
            /\ imo'.sampleSize = imo.sampleSize
            /\ imo'.sampleThreshold = imo.sampleThreshold
            /\ ret'.err # "nil" => imo' = imo]_vars

\* after Write(B) and a one-shot hash of X, Sum(nil) is neither the
\* identifier of X nor that of B
C9_Witness ==
    /\ OneShotDone
    /\ written # <<>>
    /\ Len(written) # Len(ret.file.data)
    /\ Sum(imo, <<>>).out # ret.result
    /\ Sum(imo, <<>>).out # Embedded(murmur3Sum(written), Len(written))

\* C10: for a buffer that one-shot mode does not sample, writing it in chunks
\* to a fresh or reset engine and calling Sum(nil) gives the 16 bytes of the
\* one-shot hash of the buffer under the same configuration.
C10_ModesAgree ==
    (Len(written) < imo.sampleThreshold \/ imo.sampleSize < 1) =>
        /\ Sum(imo, <<>>).out
              = hashCore(Fresh, NewSectionReader(bytesNewReader(written), Len(written))).result
        /\ Fresh = New => Sum(imo, <<>>).out = Sum128(written)

\* a buffer written in at least two chunks, not sampled under a custom
\* configuration
C10_Witness ==
    /\ Len(written) = MaxIncr
    /\ written[1] # written[MaxIncr]
    /\ imo.sampleSize < 1
    /\ Len(written) >= imo.sampleThreshold
    /\ ret.op = "Write"
    /\ ret.n = 1

=============================================================================
